---- MODULE Spec2Model ----
(***************************************************************************)
(* Sobel edge detection (src/edge_detection.py): gray_scale, the two       *)
(* gradient filters, edge_detect and output_together over pixel buffers.   *)
(*                                                                         *)
(* Buffers live in a store (heap) and are named by references, so that     *)
(* aliasing between an input buffer and the buffer a stage writes can be   *)
(* expressed.  Channel values are Python numbers: ints, and the floats     *)
(* (IEEE binary64, round to nearest even) that line 45 produces.           *)
(***************************************************************************)
EXTENDS Integers, Sequences, FiniteSets, TLC

(***************************************************************************)
(* Natural numbers of arbitrary size: little-endian sequences of limbs in  *)
(* base 2^14, without leading zero limbs (zero is << >>).  They carry the  *)
(* 53-bit significands of Python floats and their 106-bit products.        *)
(***************************************************************************)
LimbBits == 14
LimbBase == 2^LimbBits

Max(a, b) == IF a >= b THEN a ELSE b
Min(a, b) == IF a <= b THEN a ELSE b

Limb(a, k) == IF k >= 1 /\ k <= Len(a) THEN a[k] ELSE 0

\* a function on 1..n as a sequence
Tuple(s) == << >> \o s

RECURSIVE BigNorm(_)
BigNorm(a) ==
    IF a = << >> THEN a
    ELSE IF a[Len(a)] = 0 THEN BigNorm(SubSeq(a, 1, Len(a) - 1))
    ELSE a

RECURSIVE BigFromInt(_)
BigFromInt(n) ==
    IF n = 0 THEN << >> ELSE <<n % LimbBase>> \o BigFromInt(n \div LimbBase)

RECURSIVE BigToInt(_)
BigToInt(a) ==
    IF a = << >> THEN 0 ELSE a[1] + LimbBase * BigToInt(Tail(a))

RECURSIVE AddFrom(_, _, _, _)
AddFrom(a, b, k, carry) ==
    IF k > Len(a) /\ k > Len(b)
    THEN IF carry = 0 THEN << >> ELSE <<carry>>
    ELSE LET s == Limb(a, k) + Limb(b, k) + carry
         IN  <<s % LimbBase>> \o AddFrom(a, b, k + 1, s \div LimbBase)

BigAdd(a, b) == BigNorm(AddFrom(a, b, 1, 0))

\* a - b for a >= b
RECURSIVE SubFrom(_, _, _, _)
SubFrom(a, b, k, borrow) ==
    IF k > Len(a) THEN << >>
    ELSE LET d == Limb(a, k) - Limb(b, k) - borrow
         IN  IF d < 0
             THEN <<d + LimbBase>> \o SubFrom(a, b, k + 1, 1)
             ELSE <<d>> \o SubFrom(a, b, k + 1, 0)

BigSub(a, b) == BigNorm(SubFrom(a, b, 1, 0))

RECURSIVE LeqFrom(_, _, _)
LeqFrom(a, b, k) ==
    IF k = 0 THEN TRUE
    ELSE IF a[k] # b[k] THEN a[k] < b[k]
    ELSE LeqFrom(a, b, k - 1)

BigLeq(a, b) ==
    IF Len(a) # Len(b) THEN Len(a) < Len(b) ELSE LeqFrom(a, b, Len(a))

\* column k (from 0) of the schoolbook product: the sum of a[i] * b[j], i + j = k + 2
RECURSIVE ColumnSum(_, _, _, _)
ColumnSum(a, b, k, i) ==
    IF i > Len(a) THEN 0
    ELSE Limb(a, i) * Limb(b, k + 2 - i) + ColumnSum(a, b, k, i + 1)

RECURSIVE MulFrom(_, _, _, _)
MulFrom(a, b, k, carry) ==
    IF k > Len(a) + Len(b) - 1
    THEN BigFromInt(carry)
    ELSE LET s == ColumnSum(a, b, k - 1, 1) + carry
         IN  <<s % LimbBase>> \o MulFrom(a, b, k + 1, s \div LimbBase)

\* the number of zero limbs at the low end of a # << >>
RECURSIVE LowZeros(_, _)
LowZeros(a, k) == IF a[k + 1] # 0 THEN k ELSE LowZeros(a, k + 1)

\* a * b: the product of the two numbers without their low zero limbs,
\* shifted back by as many limbs
BigMul(a, b) ==
    IF a = << >> \/ b = << >> THEN << >>
    ELSE LET za == LowZeros(a, 0)
             zb == LowZeros(b, 0)
         IN  Tuple([k \in 1 .. za + zb |-> 0])
               \o BigNorm(MulFrom(SubSeq(a, za + 1, Len(a)), SubSeq(b, zb + 1, Len(b)), 1, 0))

RECURSIVE IntBitLen(_)
IntBitLen(n) == IF n = 0 THEN 0 ELSE 1 + IntBitLen(n \div 2)

BitLen(a) ==
    IF a = << >> THEN 0 ELSE LimbBits * (Len(a) - 1) + IntBitLen(a[Len(a)])

\* floor(a / 2^k)
ShiftRight(a, k) ==
    LET q == k \div LimbBits
        r == k % LimbBits
        n == Max(Len(a) - q, 0)
    IN  BigNorm(Tuple([j \in 1..n |->
            (Limb(a, j + q) \div 2^r)
              + (Limb(a, j + q + 1) % 2^r) * 2^(LimbBits - r)]))

\* a * 2^k
ShiftLeft(a, k) ==
    LET q == k \div LimbBits
        r == k % LimbBits
        n == Len(a) + q + 1
    IN  BigNorm(Tuple([j \in 1..n |->
            (Limb(a, j - q) % 2^(LimbBits - r)) * 2^r
              + (Limb(a, j - q - 1) \div 2^(LimbBits - r))]))

\* bit k (from 0) of a
TestBit(a, k) == (Limb(a, (k \div LimbBits) + 1) \div 2^(k % LimbBits)) % 2

\* whether the bits 0..k-1 of a are all zero
LowBitsZero(a, k) ==
    /\ \A j \in 1 .. Min(k \div LimbBits, Len(a)) : a[j] = 0
    /\ Limb(a, (k \div LimbBits) + 1) % 2^(k % LimbBits) = 0

(***************************************************************************)
(* Python numbers.  A channel value v is the record [i, f] with value      *)
(* i + F / 2^FracBits, where i is the floor of the value and F the number  *)
(* whose limbs are f: an int has f all zero, and every float of magnitude  *)
(* between 2^-17 and 2^31 has exactly one such record (its 53-bit          *)
(* significand ends above bit -FracBits).  Float arithmetic is done on     *)
(* sign and magnitude, [neg, mag] with mag = |v| * 2^FracBits.             *)
(***************************************************************************)
FracLimbs == 5
FracBits == FracLimbs * LimbBits
MantBits == 53

ZeroFrac == Tuple([k \in 1..FracLimbs |-> 0])
Num(n) == [i |-> n, f |-> ZeroFrac]
IsInt(v) == v.f = ZeroFrac

ToFixed(v) ==
    IF v.i >= 0
    THEN [neg |-> FALSE, mag |-> BigNorm(v.f \o BigFromInt(v.i))]
    ELSE [neg |-> TRUE,
          mag |-> BigSub(ShiftLeft(BigFromInt(-v.i), FracBits), BigNorm(v.f))]

\* the low FracLimbs limbs of a
LowLimbs(a) == Tuple([k \in 1..FracLimbs |-> Limb(a, k)])

\* 1 - F / 2^FracBits, for the fraction F # 0 of a magnitude
Complement(frac) == LowLimbs(BigSub(ShiftLeft(<<1>>, FracBits), BigNorm(frac)))

FromParts(neg, whole, frac) ==
    IF ~neg THEN [i |-> whole, f |-> frac]
    ELSE IF frac = ZeroFrac THEN [i |-> -whole, f |-> frac]
    ELSE [i |-> -whole - 1, f |-> Complement(frac)]

FromFixed(s) == FromParts(s.neg, BigToInt(ShiftRight(s.mag, FracBits)), LowLimbs(s.mag))

\* N without its low k bits, q = floor(N / 2^k), rounded on the bits dropped:
\* up when they are more than half, or half with q odd
RoundUp(N, k, q) ==
    IF TestBit(N, k - 1) = 1 /\ (~LowBitsZero(N, k - 1) \/ TestBit(q, 0) = 1)
    THEN ShiftLeft(BigAdd(q, <<1>>), k)
    ELSE ShiftLeft(q, k)

RoundLen(N, n) ==
    IF n <= MantBits THEN N ELSE RoundUp(N, n - MantBits, ShiftRight(N, n - MantBits))

\* N rounded to MantBits significant bits, ties to even
RoundSig(N) == RoundLen(N, BitLen(N))

Rounded(s) == FromFixed([neg |-> s.neg, mag |-> RoundSig(s.mag)])

\* float * float and float + float (an int operand is converted exactly)
MulFixed(x, y) ==
    FromFixed([neg |-> x.neg # y.neg,
               mag |-> ShiftRight(RoundSig(BigMul(x.mag, y.mag)), FracBits)])

FMul(a, b) == MulFixed(ToFixed(a), ToFixed(b))

AddFixed(x, y) ==
    Rounded(IF x.neg = y.neg THEN [neg |-> x.neg, mag |-> BigAdd(x.mag, y.mag)]
            ELSE IF BigLeq(y.mag, x.mag) THEN [neg |-> x.neg, mag |-> BigSub(x.mag, y.mag)]
            ELSE [neg |-> y.neg, mag |-> BigSub(y.mag, x.mag)])

FAdd(a, b) == AddFixed(ToFixed(a), ToFixed(b))

\* the float literals of line 45: 0.299 = 0x1.322d0e5604189p-2,
\* 0.587 = 0x1.2c8b439581062p-1, 0.114 = 0x1.d2f1a9fbe76c9p-4
RedWeight == [i |-> 0, f |-> <<0, 1572, 5636, 13369, 4898>>]
GreenWeight == [i |-> 0, f |-> <<0, 784, 11010, 6684, 9617>>]
BlueWeight == [i |-> 0, f |-> <<0, 14025, 16121, 12713, 1867>>]

\* the luminance with the green weight used for blue as well
Luminance_green_twice(pixel) ==
    FAdd(FAdd(FMul(RedWeight, pixel.red), FMul(GreenWeight, pixel.green)),
         FMul(GreenWeight, pixel.blue))

\* line 45: gray = (0.299 * pixel.red) + (0.587 * pixel.green) + (0.114 * pixel.blue)
Luminance(pixel) ==
    FAdd(FAdd(FMul(RedWeight, pixel.red), FMul(GreenWeight, pixel.green)),
         FMul(BlueWeight, pixel.blue))

\* the average with a division that rounds towards zero
Average_truncating(pixel) ==
    LET sum == IF IsInt(pixel.red) /\ IsInt(pixel.green) /\ IsInt(pixel.blue)
               THEN pixel.red.i + pixel.green.i + pixel.blue.i
               ELSE FAdd(FAdd(pixel.red, pixel.green), pixel.blue).i
    IN  IF sum >= 0 THEN sum \div 3 ELSE -((-sum) \div 3)

\* (pixel.red + pixel.green + pixel.blue) // 3 of lines 119, 167, 195 and 197:
\* int arithmetic for ints; for floats each sum is rounded and // gives the
\* floor of the exact quotient
Average(pixel) ==
    IF IsInt(pixel.red) /\ IsInt(pixel.green) /\ IsInt(pixel.blue)
    THEN (pixel.red.i + pixel.green.i + pixel.blue.i) \div 3
    ELSE FAdd(FAdd(pixel.red, pixel.green), pixel.blue).i \div 3

RGB(r, g, b) == [red |-> r, green |-> g, blue |-> b]

(***************************************************************************)
(* Pixel buffers (SimpleImage).  A buffer is [width, height, px] with px a *)
(* function from <<x, y>> to a pixel; the store `heap` maps references     *)
(* 1..Len(heap) to buffers.  A function of the program takes the store and *)
(* references and gives [heap, ret, err]: the store after the call, the    *)
(* reference returned, and the exception raised ("" for none).             *)
(***************************************************************************)
Coords(width, height) == (0 .. width - 1) \X (0 .. height - 1)

\* SimpleImage.blank(width, height)
Blank(width, height) ==
    [width |-> width, height |-> height,
     px |-> [c \in Coords(width, height) |-> RGB(Num(255), Num(255), Num(255))]]

\* the coordinate check of get_pixel and set_pixel
InRange(buf, x, y) == x \in 0 .. buf.width - 1 /\ y \in 0 .. buf.height - 1

\* range(lo, hi), and `for x in xs: for y in ys` as the sequence of <<x, y>>
Range(lo, hi) == Tuple([k \in 1 .. Max(hi - lo, 0) |-> lo + k - 1])
Nested(xs, ys) ==
    Tuple([k \in 1 .. Len(xs) * Len(ys) |->
        <<xs[((k - 1) \div Len(ys)) + 1], ys[((k - 1) % Len(ys)) + 1]>>])

\* `for pixel in image`: every pixel once, row by row
Pixels(buf) ==
    Tuple([k \in 1 .. buf.width * buf.height |->
        <<(k - 1) % buf.width, (k - 1) \div buf.width>>])

\* A loop over the sequence `at` is the sequential composition of its
\* iterations lo..hi, written as the first half followed by the second half;
\* a loop looks at the store it is given (has it any buffer?) before it
\* starts, so the first half is complete when the second begins.
Half(lo, hi) == (lo + hi) \div 2

\* pix.red = v; pix.green = v; pix.blue = v on the pixel c of buffer r
SetAll(h, r, c, v) == [h EXCEPT ![r].px[c] = RGB(v, v, v)]

\* what a function hands back: the store it leaves and the reference it
\* returns, or the store as it was and the exception raised in the loop
Result(done, h, ret) ==
    IF done.err = "" THEN [heap |-> done.heap, ret |-> ret, err |-> ""]
    ELSE [heap |-> h, ret |-> 0, err |-> done.err]

RECURSIVE CopyLoop(_, _, _, _, _, _)
CopyLoop(h, image, image_copy, at, lo, hi) ==
    IF Len(h) = 0 \/ lo > hi THEN h
    ELSE IF lo = hi
    THEN [h EXCEPT ![image_copy].px[at[lo]] = h[image].px[at[lo]]]
    ELSE CopyLoop(CopyLoop(h, image, image_copy, at, lo, Half(lo, hi)),
                  image, image_copy, at, Half(lo, hi) + 1, hi)

\* a copy_image that hands back the buffer it was given
copy_image_alias(h, image) == [heap |-> h, ret |-> image, err |-> ""]

copy_image(h, image) ==
    LET width == h[image].width
        height == h[image].height
        image_copy == Len(h) + 1
    IN  [heap |-> CopyLoop(Append(h, Blank(width, height)), image, image_copy,
                           Nested(Range(0, width), Range(0, height)),
                           1, width * height),
         ret |-> image_copy, err |-> ""]

RECURSIVE GrayLoop(_, _, _, _, _)
GrayLoop(h, copy, at, lo, hi) ==
    IF Len(h) = 0 \/ lo > hi THEN h
    ELSE IF lo = hi
    THEN SetAll(h, copy, at[lo], Luminance(h[copy].px[at[lo]]))
    ELSE GrayLoop(GrayLoop(h, copy, at, lo, Half(lo, hi)), copy, at, Half(lo, hi) + 1, hi)

\* lines 44-49 on the copy of line 43
GrayCopy(copy) ==
    [heap |-> GrayLoop(copy.heap, copy.ret, Pixels(copy.heap[copy.ret]),
                       1, Len(Pixels(copy.heap[copy.ret]))),
     ret |-> copy.ret, err |-> ""]

gray_scale(h, image) == GrayCopy(copy_image(h, image))

in_bound(x, y, width, height) == 0 <= x /\ x < width /\ 0 <= y /\ y < height

\* gx with the sign of its last weight lost
gx_unbalanced == <<-1, 0, 1, -2, 0, 2, -1, 0, -1>>
gx == <<-1, 0, 1, -2, 0, 2, -1, 0, 1>>

\* gy with the sign of its first weight lost
gy_unbalanced == <<1, -2, -1, 0, 0, 0, 1, 2, 1>>
gy == <<-1, -2, -1, 0, 0, 0, 1, 2, 1>>

\* the neighbours of (x, y) row by row: y in the outer loop, x in the inner
Neighbours_by_rows(x, y) ==
    Tuple([k \in 1 .. 9 |-> <<x - 1 + ((k - 1) % 3), y - 1 + ((k - 1) \div 3)>>])

\* the neighbours of (x, y) in the order of the loops of lines 115-116
Neighbours(x, y) == Nested(Range(x - 1, x + 1 + 1), Range(y - 1, y + 1 + 1))

\* lines 118-122 (and 166-170) for the neighbour c: add and index after it;
\* `used` records the index every neighbour that passed in_bound was
\* multiplied with
Accumulate(acc, c, average, kernel) ==
    [add |-> acc.add + average * kernel[acc.index + 1],
     index |-> acc.index + 1,
     used |-> Append(acc.used, <<c, acc.index>>)]

\* lines 112-122 (and 160-170): add and index after the two loops
RECURSIVE KernelLoop(_, _, _, _, _, _)
KernelLoop(kernel, buf, at, lo, hi, acc) ==
    IF acc.index < 0 \/ lo > hi THEN acc
    ELSE IF lo = hi
    THEN IF in_bound(at[lo][1], at[lo][2], buf.width, buf.height)
         THEN Accumulate(acc, at[lo], Average(buf.px[at[lo]]), kernel)
         ELSE acc
    ELSE KernelLoop(kernel, buf, at, Half(lo, hi) + 1, hi,
                    KernelLoop(kernel, buf, at, lo, Half(lo, hi), acc))

Convolve(kernel, buf, x, y) ==
    KernelLoop(kernel, buf, Neighbours(x, y), 1, Len(Neighbours(x, y)),
               [add |-> 0, index |-> 0, used |-> << >>])

horizontal_gradient(h, x, y, image, image_copy) ==
    SetAll(h, image_copy, <<x, y>>, Num(Convolve(gx, h[image], x, y).add))

vertical_gradient(h, x, y, image, image_copy) ==
    SetAll(h, image_copy, <<x, y>>, Num(Convolve(gy, h[image], x, y).add))

\* loops that stop one pixel from the far edges: range(1, rows - 1)
Visited_but_last(rows, columns) == Nested(Range(1, rows - 1), Range(1, columns - 1))

\* loops that run to the far edges: range(1, rows)
Visited_to_edge(rows, columns) == Nested(Range(1, rows), Range(1, columns))

\* the pixels the loops of lines 93-94 (and 141-142) visit
Visited(rows, columns) == Nested(Range(1, rows - 2), Range(1, columns - 2))

RECURSIVE HorizontalLoop(_, _, _, _, _, _)
HorizontalLoop(h, image, new_image, at, lo, hi) ==
    IF Len(h) = 0 \/ lo > hi THEN h
    ELSE IF lo = hi
    THEN horizontal_gradient(h, at[lo][1], at[lo][2], image, new_image)
    ELSE HorizontalLoop(HorizontalLoop(h, image, new_image, at, lo, Half(lo, hi)),
                        image, new_image, at, Half(lo, hi) + 1, hi)

\* lines 93-96 on the copy of line 91
HorizontalCopy(new_image, image, rows, columns) ==
    [heap |-> HorizontalLoop(new_image.heap, image, new_image.ret,
                             Visited(rows, columns), 1, Len(Visited(rows, columns))),
     ret |-> new_image.ret, err |-> ""]

horizontal_edge_detect(h, image) ==
    HorizontalCopy(copy_image(h, image), image, h[image].width, h[image].height)

RECURSIVE VerticalLoop(_, _, _, _, _, _)
VerticalLoop(h, image, new_image, at, lo, hi) ==
    IF Len(h) = 0 \/ lo > hi THEN h
    ELSE IF lo = hi
    THEN vertical_gradient(h, at[lo][1], at[lo][2], image, new_image)
    ELSE VerticalLoop(VerticalLoop(h, image, new_image, at, lo, Half(lo, hi)),
                      image, new_image, at, Half(lo, hi) + 1, hi)

\* lines 141-144 on the copy of line 139
VerticalCopy(new_image, image, rows, columns) ==
    [heap |-> VerticalLoop(new_image.heap, image, new_image.ret,
                           Visited(rows, columns), 1, Len(Visited(rows, columns))),
     ret |-> new_image.ret, err |-> ""]

vertical_edge_detect(h, image) ==
    VerticalCopy(copy_image(h, image), image, h[image].width, h[image].height)

\* int(math.sqrt(n)) for 0 <= n < 2^31: the float square root is exact
\* enough there that its integer part is the integer square root
RECURSIVE SqrtSearch(_, _, _)
SqrtSearch(n, lo, hi) ==
    IF lo = hi THEN lo
    ELSE IF ((lo + hi + 1) \div 2) * ((lo + hi + 1) \div 2) <= n
    THEN SqrtSearch(n, (lo + hi + 1) \div 2, hi)
    ELSE SqrtSearch(n, lo, ((lo + hi + 1) \div 2) - 1)

Magnitude(x_average, y_average) ==
    SqrtSearch(x_average * x_average + y_average * y_average, 0,
               Min(x_average * x_average + y_average * y_average, 46340))

\* lines 192-204 on the state [heap, err]; get_pixel on `vertical` raises
\* outside its range and ends the loop
RECURSIVE EdgeLoop(_, _, _, _, _, _, _)
EdgeLoop(s, horizontal, vertical, new_image, at, lo, hi) ==
    IF lo > hi \/ s.err # "" THEN s
    ELSE IF lo = hi
    THEN IF ~InRange(s.heap[vertical], at[lo][1], at[lo][2])
         THEN [heap |-> s.heap, err |-> "OutOfRangeAccess"]
         ELSE [heap |-> SetAll(s.heap, new_image, at[lo],
                               Num(Magnitude(Average(s.heap[horizontal].px[at[lo]]),
                                             Average(s.heap[vertical].px[at[lo]])))),
               err |-> ""]
    ELSE EdgeLoop(EdgeLoop(s, horizontal, vertical, new_image, at, lo, Half(lo, hi)),
                  horizontal, vertical, new_image, at, Half(lo, hi) + 1, hi)

\* lines 192-205 on the copy of line 190
EdgeCopy(new_image, h, horizontal, vertical, width, height) ==
    Result(EdgeLoop([heap |-> new_image.heap, err |-> ""], horizontal, vertical,
                    new_image.ret, Nested(Range(0, width), Range(0, height)),
                    1, width * height),
           h, new_image.ret)

edge_detect(h, horizontal, vertical) ==
    EdgeCopy(copy_image(h, horizontal), h, horizontal, vertical,
             h[horizontal].width, h[horizontal].height)

\* lines 219-224 on the state [heap, err]; get_pixel on image2 raises outside
\* its range and ends the loop
RECURSIVE TogetherLoop(_, _, _, _, _, _, _)
TogetherLoop(s, image1, image2, double, at, lo, hi) ==
    IF lo > hi \/ s.err # "" THEN s
    ELSE IF lo = hi
    THEN IF ~InRange(s.heap[image2], at[lo][1], at[lo][2])
         THEN [heap |-> s.heap, err |-> "OutOfRangeAccess"]
         ELSE [s EXCEPT !.heap[double].px[at[lo]] = s.heap[image1].px[at[lo]],
                        !.heap[double].px[<<s.heap[image1].width + at[lo][1], at[lo][2]>>] =
                            s.heap[image2].px[at[lo]]]
    ELSE TogetherLoop(TogetherLoop(s, image1, image2, double, at, lo, Half(lo, hi)),
                      image1, image2, double, at, Half(lo, hi) + 1, hi)

output_together(h, image1, image2) ==
    LET width == h[image1].width
        height == h[image1].height
        double == Len(h) + 1
    IN  Result(TogetherLoop([heap |-> Append(h, Blank(width * 2, height)), err |-> ""],
                            image1, image2, double,
                            Nested(Range(0, width), Range(0, height)), 1, width * height),
               h, double)

(***************************************************************************)
(* Inputs.  Raster images have int channels in 0..255.                     *)
(***************************************************************************)
MaxW == 5
MaxH == 5
MaxCalls == 2

Gray(v) == RGB(Num(v), Num(v), Num(v))

\* every pixel R = G = B = v
Uniform(width, height, v) ==
    [width |-> width, height |-> height,
     px |-> [c \in Coords(width, height) |-> Gray(v)]]

\* intensity a in the columns 0..c and b in the columns right of c
VStep(width, height, c, a, b) ==
    [width |-> width, height |-> height,
     px |-> [d \in Coords(width, height) |-> IF d[1] <= c THEN Gray(a) ELSE Gray(b)]]

\* intensity a in the rows 0..c and b in the rows below c
HStep(width, height, c, a, b) ==
    [width |-> width, height |-> height,
     px |-> [d \in Coords(width, height) |-> IF d[2] <= c THEN Gray(a) ELSE Gray(b)]]

\* a colour image whose channels differ from each other and from pixel to pixel
Colour(width, height, k) ==
    [width |-> width, height |-> height,
     px |-> [c \in Coords(width, height) |->
                RGB(Num((k + 37 * c[1] + 101 * c[2]) % 256),
                    Num((2 * k + 10 + 59 * c[1] + 17 * c[2]) % 256),
                    Num((3 * k + 200 + 83 * c[1] + 29 * c[2]) % 256))]]

\* a buffer of small ints of both signs, as gradient responses are
Signed(width, height, k) ==
    [width |-> width, height |-> height,
     px |-> [c \in Coords(width, height) |->
                RGB(Num(c[1] - 2 * c[2] - k), Num(k * c[2] - 3), Num(2 - c[1]))]]

GrayLevels == {0, 1, 100, 255}
StepLevels == {<<0, 255>>, <<255, 0>>}
Sizes == (1 .. MaxW) \X (1 .. MaxH)

MainImages ==
    UNION {
        {Uniform(s[1], s[2], v) : v \in GrayLevels}
          \cup {VStep(s[1], s[2], c, l[1], l[2]) : c \in 0 .. s[1] - 2, l \in StepLevels}
          \cup {HStep(s[1], s[2], c, l[1], l[2]) : c \in 0 .. s[2] - 2, l \in StepLevels}
          \cup {Colour(s[1], s[2], k) : k \in {0, 1}}
        : s \in Sizes}

\* buffers for calls of the functions on their own
CallImages == { Colour(5, 4, 0), Uniform(4, 4, 1), Signed(4, 4, 2) }

\* pairs of buffers of all sizes, equal and different, with ints of both
\* signs, and pairs of all-zero buffers
PairImages ==
    { <<Signed(s[1], s[2], 1), Signed(t[1], t[2], 4)>> : s \in Sizes, t \in Sizes }
      \cup { <<Uniform(s[1], s[2], 0), Uniform(s[1], s[2], 0)>> : s \in Sizes }

(***************************************************************************)
(* State: the store, main's locals (references, 0 before assignment),      *)
(* main's position, and the calls made so far with their outcomes.         *)
(***************************************************************************)
VARIABLES heap, pc, image, grayed, horizontal_edge, vertical_edge,
          edge_detection, together, calls

vars == <<heap, pc, image, grayed, horizontal_edge, vertical_edge,
          edge_detection, together, calls>>

Called(fn, args, r) == Append(calls, [fn |-> fn, args |-> args, ret |-> r.ret, err |-> r.err])

\* a call of fn returns (or raises): the store and the record of the call
Returns(fn, args, r) == heap' = r.heap /\ calls' = Called(fn, args, r)

\* the outcome of the call just made
Last == calls'[Len(calls')]

\* main(), lines 12-33, from the decoded image on (show and save are I/O)
Init ==
    /\ heap \in {<<img>> : img \in MainImages}
    /\ image = 1
    /\ grayed = 0 /\ horizontal_edge = 0 /\ vertical_edge = 0
    /\ edge_detection = 0 /\ together = 0
    /\ pc = "gray_scale"
    /\ calls = << >>

MainGrayScale ==
    /\ pc = "gray_scale"
    /\ Returns("gray_scale", <<image>>, gray_scale(heap, image))
    /\ grayed' = Last.ret
    /\ pc' = "horizontal_edge_detect"
    /\ UNCHANGED <<image, horizontal_edge, vertical_edge, edge_detection, together>>

MainHorizontal ==
    /\ pc = "horizontal_edge_detect"
    /\ Returns("horizontal_edge_detect", <<grayed>>, horizontal_edge_detect(heap, grayed))
    /\ horizontal_edge' = Last.ret
    /\ pc' = "vertical_edge_detect"
    /\ UNCHANGED <<image, grayed, vertical_edge, edge_detection, together>>

MainVertical ==
    /\ pc = "vertical_edge_detect"
    /\ Returns("vertical_edge_detect", <<grayed>>, vertical_edge_detect(heap, grayed))
    /\ vertical_edge' = Last.ret
    /\ pc' = "edge_detect"
    /\ UNCHANGED <<image, grayed, horizontal_edge, edge_detection, together>>

MainEdgeDetect ==
    /\ pc = "edge_detect"
    /\ Returns("edge_detect", <<horizontal_edge, vertical_edge>>,
               edge_detect(heap, horizontal_edge, vertical_edge))
    /\ edge_detection' = Last.ret
    /\ pc' = IF Last.err = "" THEN "output_together" ELSE "raised"
    /\ UNCHANGED <<image, grayed, horizontal_edge, vertical_edge, together>>

MainOutputTogether ==
    /\ pc = "output_together"
    /\ Returns("output_together", <<image, edge_detection>>,
               output_together(heap, image, edge_detection))
    /\ together' = Last.ret
    /\ pc' = IF Last.err = "" THEN "done" ELSE "raised"
    /\ UNCHANGED <<image, grayed, horizontal_edge, vertical_edge, edge_detection>>

Next ==
    \/ MainGrayScale
    \/ MainHorizontal
    \/ MainVertical
    \/ MainEdgeDetect
    \/ MainOutputTogether

Spec == Init /\ [][Next]_vars

(***************************************************************************)
(* The functions called on their own, in any order, on a given buffer and  *)
(* on the buffers earlier calls returned.                                  *)
(***************************************************************************)
InitCalls ==
    /\ heap \in {<<img>> : img \in CallImages}
    /\ image = 0 /\ grayed = 0 /\ horizontal_edge = 0 /\ vertical_edge = 0
    /\ edge_detection = 0 /\ together = 0
    /\ pc = "calls"
    /\ calls = << >>

Refs == 1 .. Len(heap)
MainLocals == <<image, grayed, horizontal_edge, vertical_edge, edge_detection, together>>

CallGrayScale ==
    /\ Len(calls) < MaxCalls
    /\ \E a \in Refs : Returns("gray_scale", <<a>>, gray_scale(heap, a))
    /\ UNCHANGED <<pc, MainLocals>>

CallHorizontal ==
    /\ Len(calls) < MaxCalls
    /\ \E a \in Refs :
         Returns("horizontal_edge_detect", <<a>>, horizontal_edge_detect(heap, a))
    /\ UNCHANGED <<pc, MainLocals>>

CallVertical ==
    /\ Len(calls) < MaxCalls
    /\ \E a \in Refs :
         Returns("vertical_edge_detect", <<a>>, vertical_edge_detect(heap, a))
    /\ UNCHANGED <<pc, MainLocals>>

CallEdgeDetect ==
    /\ Len(calls) < MaxCalls
    /\ \E a \in Refs, b \in Refs :
         Returns("edge_detect", <<a, b>>, edge_detect(heap, a, b))
    /\ UNCHANGED <<pc, MainLocals>>

CallOutputTogether ==
    /\ Len(calls) < MaxCalls
    /\ \E a \in Refs, b \in Refs :
         Returns("output_together", <<a, b>>, output_together(heap, a, b))
    /\ UNCHANGED <<pc, MainLocals>>

NextCalls ==
    \/ CallGrayScale
    \/ CallHorizontal
    \/ CallVertical
    \/ CallEdgeDetect
    \/ CallOutputTogether

SpecCalls == InitCalls /\ [][NextCalls]_vars

(***************************************************************************)
(* One call of edge_detect or of output_together on two given buffers, in  *)
(* either argument order.                                                  *)
(***************************************************************************)
InitPairs ==
    /\ heap \in {<<p[1], p[2]>> : p \in PairImages}
    /\ image = 0 /\ grayed = 0 /\ horizontal_edge = 0 /\ vertical_edge = 0
    /\ edge_detection = 0 /\ together = 0
    /\ pc = "pair"
    /\ calls = << >>

PairEdgeDetect ==
    /\ calls = << >>
    /\ \E a \in Refs, b \in Refs :
         Returns("edge_detect", <<a, b>>, edge_detect(heap, a, b))
    /\ UNCHANGED <<pc, MainLocals>>

PairOutputTogether ==
    /\ calls = << >>
    /\ \E a \in Refs, b \in Refs :
         Returns("output_together", <<a, b>>, output_together(heap, a, b))
    /\ UNCHANGED <<pc, MainLocals>>

NextPairs ==
    \/ PairEdgeDetect
    \/ PairOutputTogether

SpecPairs == InitPairs /\ [][NextPairs]_vars

(***************************************************************************)
(* Properties.                                                             *)
(***************************************************************************)
\* the interior range of the gradient filters: 1 <= x <= width-3, 1 <= y <= height-3
Interior(buf) ==
    {c \in DOMAIN buf.px : /\ 1 <= c[1] /\ c[1] <= buf.width - 3
                           /\ 1 <= c[2] /\ c[2] <= buf.height - 3}

IsGray(buf) == \A c \in DOMAIN buf.px :
    buf.px[c].red = buf.px[c].green /\ buf.px[c].green = buf.px[c].blue

IsUniform(buf) == IsGray(buf) /\ \A c, d \in DOMAIN buf.px : buf.px[c] = buf.px[d]

\* a black/white step between the columns c and c + 1
IsVStep(buf, c) ==
    /\ IsGray(buf)
    /\ c >= 0 /\ c + 1 <= buf.width - 1
    /\ {buf.px[<<c, 0>>], buf.px[<<c + 1, 0>>]} = {Gray(0), Gray(255)}
    /\ \A d \in DOMAIN buf.px :
         buf.px[d] = IF d[1] <= c THEN buf.px[<<c, 0>>] ELSE buf.px[<<c + 1, 0>>]

\* a black/white step between the rows c and c + 1
IsHStep(buf, c) ==
    /\ IsGray(buf)
    /\ c >= 0 /\ c + 1 <= buf.height - 1
    /\ {buf.px[<<0, c>>], buf.px[<<0, c + 1>>]} = {Gray(0), Gray(255)}
    /\ \A d \in DOMAIN buf.px :
         buf.px[d] = IF d[2] <= c THEN buf.px[<<0, c>>] ELSE buf.px[<<0, c + 1>>]

FiltersDone == horizontal_edge # 0 /\ vertical_edge # 0

\* C1 as stated: on a vertical black/white step edge horizontal_edge_detect
\* responds (nonzero) at every interior pixel of the two columns at the step
\* and vertical_edge_detect gives zero there; the other way round on a
\* horizontal step edge.
C1_AsStated ==
    FiltersDone =>
      LET g == heap[grayed]
          H == heap[horizontal_edge]
          V == heap[vertical_edge]
      IN  /\ \A c \in 0 .. g.width - 2 : IsVStep(g, c) =>
                \A d \in Interior(g) : d[1] \in {c, c + 1} =>
                    H.px[d] # Gray(0) /\ V.px[d] = Gray(0)
          /\ \A c \in 0 .. g.height - 2 : IsHStep(g, c) =>
                \A d \in Interior(g) : d[2] \in {c, c + 1} =>
                    V.px[d] # Gray(0) /\ H.px[d] = Gray(0)

\* C1 amended: on a vertical black/white step edge it is vertical_edge_detect
\* (mask gy) that responds at every interior pixel of the two columns at the
\* step, and horizontal_edge_detect (mask gx) that gives zero there; on a
\* horizontal step edge horizontal_edge_detect responds and
\* vertical_edge_detect gives zero.
C1_StepResponse ==
    FiltersDone =>
      LET g == heap[grayed]
          H == heap[horizontal_edge]
          V == heap[vertical_edge]
      IN  /\ \A c \in 0 .. g.width - 2 : IsVStep(g, c) =>
                \A d \in Interior(g) : d[1] \in {c, c + 1} =>
                    V.px[d] # Gray(0) /\ H.px[d] = Gray(0)
          /\ \A c \in 0 .. g.height - 2 : IsHStep(g, c) =>
                \A d \in Interior(g) : d[2] \in {c, c + 1} =>
                    H.px[d] # Gray(0) /\ V.px[d] = Gray(0)

\* both filters have run on a 5x5 vertical step between the columns 1 and 2,
\* whose interior pixels all lie in the two columns at the step
C1_Witness ==
    /\ FiltersDone
    /\ heap[grayed].width = 5 /\ heap[grayed].height = 5
    /\ IsVStep(heap[grayed], 1)
    /\ \E d \in Interior(heap[grayed]) : heap[vertical_edge].px[d] = Gray(1020)

\* C2: the output of each gradient filter has the width and height of its
\* input, and every pixel outside the interior range equals the input pixel.
SameOutside(out, in) ==
    /\ out.width = in.width /\ out.height = in.height
    /\ DOMAIN out.px = DOMAIN in.px
    /\ \A c \in DOMAIN in.px : c \notin Interior(in) => out.px[c] = in.px[c]

C2_BorderKept ==
    /\ horizontal_edge # 0 => SameOutside(heap[horizontal_edge], heap[grayed])
    /\ vertical_edge # 0 => SameOutside(heap[vertical_edge], heap[grayed])

\* both filters have run on a buffer with an interior, and changed a pixel of
\* it, next to border pixels that are not zero
C2_Witness ==
    /\ FiltersDone
    /\ \E d \in Interior(heap[grayed]) :
         /\ heap[horizontal_edge].px[d] # heap[grayed].px[d]
         /\ heap[vertical_edge].px[d] # heap[grayed].px[d]
    /\ \E c \in DOMAIN heap[grayed].px :
         c \notin Interior(heap[grayed]) /\ heap[grayed].px[c] # Gray(0)

\* C7: on a buffer whose pixels all have the same value in all channels both
\* filters write 0 to all three channels of every interior pixel.
C7_UniformZero ==
    grayed # 0 /\ IsUniform(heap[grayed]) =>
      /\ horizontal_edge # 0 =>
           \A d \in Interior(heap[grayed]) : heap[horizontal_edge].px[d] = Gray(0)
      /\ vertical_edge # 0 =>
           \A d \in Interior(heap[grayed]) : heap[vertical_edge].px[d] = Gray(0)

\* both filters have run on a uniform buffer of value 100 with an interior
C7_Witness ==
    /\ FiltersDone
    /\ IsUniform(heap[grayed])
    /\ Interior(heap[grayed]) # {}
    /\ \A c \in DOMAIN heap[grayed].px : heap[grayed].px[c] = Gray(100)

\* C9: at every pixel the interior loops visit, each of the nine neighbours is
\* in bounds, so the index is incremented nine times and the k-th neighbour is
\* multiplied by kernel entry k (index k - 1, never past 8).
AllNine(kernel, buf, x, y) ==
    LET run == Convolve(kernel, buf, x, y)
        at == Neighbours(x, y)
    IN  /\ \A k \in 1 .. Len(at) : in_bound(at[k][1], at[k][2], buf.width, buf.height)
        /\ \A k \in 1 .. Len(at) : at[k][1] \in x - 1 .. x + 1 /\ at[k][2] \in y - 1 .. y + 1
        /\ run.index = 9
        /\ Len(run.used) = 9
        /\ \A k \in 1 .. 9 : run.used[k] = <<at[k], k - 1>> /\ run.used[k][2] <= 8

C9_NeighboursInBounds ==
    grayed # 0 =>
      LET g == heap[grayed]
          at == Visited(g.width, g.height)
      IN  \A k \in 1 .. Len(at) :
            AllNine(gx, g, at[k][1], at[k][2]) /\ AllNine(gy, g, at[k][1], at[k][2])

\* both filters have run on a 5x5 buffer, where the loops visit four pixels
C9_Witness ==
    /\ FiltersDone
    /\ heap[grayed].width = 5 /\ heap[grayed].height = 5
    /\ Len(Visited(heap[grayed].width, heap[grayed].height)) = 4
    /\ heap[horizontal_edge] # heap[grayed]

\* C3 as stated: for a uniform image every pixel of the edge-magnitude buffer
\* main computes, border included, is zero in all three channels.
C3_AsStated ==
    edge_detection # 0 /\ IsUniform(heap[image]) =>
      \A c \in DOMAIN heap[edge_detection].px : heap[edge_detection].px[c] = Gray(0)

\* C3 amended: for a uniform image every interior pixel of the edge-magnitude
\* buffer is zero in all three channels; every pixel outside the interior
\* range holds floor(sqrt(2 * a^2)), a the integer average of the grayscale
\* pixel the filters left unchanged there (141 for v = 100), which is zero
\* only when a is.
C3_UniformEdges ==
    edge_detection # 0 /\ IsUniform(heap[image]) =>
      LET e == heap[edge_detection]
          g == heap[grayed]
      IN  /\ e.width = g.width /\ e.height = g.height
          /\ \A c \in Interior(g) : e.px[c] = Gray(0)
          /\ \A c \in DOMAIN g.px \ Interior(g) :
               LET a == Average(g.px[c])
                   m == e.px[c].red.i
               IN  /\ e.px[c] = Gray(m)
                   /\ m >= 0 /\ m * m <= 2 * a * a /\ 2 * a * a < (m + 1) * (m + 1)
                   /\ heap[image].px[c] = Gray(100) => m = 141

\* edge_detect has run in main on the 5x5 uniform image of value 100: zero
\* in the interior and 141 in a corner
C3_Witness ==
    /\ edge_detection # 0
    /\ heap[image].width = 5 /\ heap[image].height = 5
    /\ IsUniform(heap[image]) /\ heap[image].px[<<0, 0>>] = Gray(100)
    /\ heap[edge_detection].px[<<1, 1>>] = Gray(0)
    /\ heap[edge_detection].px[<<0, 0>>] = Gray(141)

SameSize(a, b) == a.width = b.width /\ a.height = b.height

\* C4 as stated: edge_detect, given two buffers whose widths or heights
\* differ, raises DimensionMismatch and produces no output.
C4_AsStated ==
    \A k \in 1 .. Len(calls) :
      calls[k].fn = "edge_detect"
        /\ ~SameSize(heap[calls[k].args[1]], heap[calls[k].args[2]])
      => calls[k].err = "DimensionMismatch" /\ calls[k].ret = 0

\* C5 as stated: output_together, given buffers of height h and of widths w1
\* and w2, returns a buffer of width w1 + w2 and height h with image1 at
\* (x, y) for 0 <= x < w1 and image2 at (w1 + x, y) for 0 <= x < w2.
C5_AsStated ==
    \A k \in 1 .. Len(calls) :
      calls[k].fn = "output_together"
        /\ heap[calls[k].args[1]].height = heap[calls[k].args[2]].height
      => /\ calls[k].err = ""
         /\ LET image1 == heap[calls[k].args[1]]
                image2 == heap[calls[k].args[2]]
                out == heap[calls[k].ret]
            IN  /\ out.width = image1.width + image2.width
                /\ out.height = image1.height
                /\ \A c \in DOMAIN image1.px : out.px[c] = image1.px[c]
                /\ \A c \in DOMAIN image2.px :
                     out.px[<<image1.width + c[1], c[2]>>] = image2.px[c]

\* the floor of s / 3 and of the square root of n, by their defining
\* inequalities
FloorThird(s) ==
    LET b == IF s < 0 THEN -s ELSE s
    IN  CHOOSE q \in -(b + 1) .. b + 1 : 3 * q <= s /\ s < 3 * q + 3

IsFloorSqrt(m, n) == m >= 0 /\ m * m <= n /\ n < (m + 1) * (m + 1)

ChannelSum(pixel) == pixel.red.i + pixel.green.i + pixel.blue.i

\* C6: edge_detect sets all three channels of each pixel to
\* floor(sqrt(hx^2 + hy^2)), hx and hy the channel averages of the horizontal
\* and of the vertical pixel with floor division (rounding towards minus
\* infinity on a negative sum); the output is never negative, and all-zero
\* inputs give an all-zero output.
C6_Magnitude ==
    \A k \in 1 .. Len(calls) :
      calls[k].fn = "edge_detect" /\ calls[k].err = "" =>
        LET horizontal == heap[calls[k].args[1]]
            vertical == heap[calls[k].args[2]]
            out == heap[calls[k].ret]
        IN  /\ SameSize(out, horizontal)
            /\ \A c \in DOMAIN horizontal.px :
                 LET hx == FloorThird(ChannelSum(horizontal.px[c]))
                     hy == FloorThird(ChannelSum(vertical.px[c]))
                     m == out.px[c].red.i
                 IN  /\ out.px[c] = Gray(m)
                     /\ IsFloorSqrt(m, hx * hx + hy * hy)
                     /\ (horizontal.px[c] = Gray(0) /\ vertical.px[c] = Gray(0)) => m = 0

\* edge_detect has run on two 4x4 buffers where a pixel has channel sums -2
\* and -5, averages -1 and -2, and magnitude 2
C6_Witness ==
    \E k \in 1 .. Len(calls) :
      /\ calls[k].fn = "edge_detect" /\ calls[k].err = ""
      /\ heap[calls[k].args[1]].width = 4 /\ heap[calls[k].args[1]].height = 4
      /\ SameSize(heap[calls[k].args[1]], heap[calls[k].args[2]])
      /\ \E c \in DOMAIN heap[calls[k].args[1]].px :
           /\ ChannelSum(heap[calls[k].args[1]].px[c]) = -2
           /\ ChannelSum(heap[calls[k].args[2]].px[c]) = -5
           /\ heap[calls[k].ret].px[c] = Gray(2)

\* call j is gray_scale applied to the buffer gray_scale returned in call k
GrayOfGray(k, j) ==
    /\ calls[k].fn = "gray_scale" /\ calls[j].fn = "gray_scale"
    /\ calls[j].args = <<calls[k].ret>>

\* C8 as stated: gray_scale applied to a buffer gray_scale returned gives the
\* same buffer.
C8_AsStated ==
    \A k, j \in 1 .. Len(calls) :
      GrayOfGray(k, j) => heap[calls[j].ret] = heap[calls[k].ret]

\* |a - b| <= |a| / 2^50, a and b of the same sign
Close(a, b) ==
    LET x == ToFixed(a)
        y == ToFixed(b)
        d == IF BigLeq(x.mag, y.mag) THEN BigSub(y.mag, x.mag) ELSE BigSub(x.mag, y.mag)
    IN  /\ (x.neg = y.neg \/ (x.mag = << >> /\ y.mag = << >>))
        /\ BigLeq(ShiftLeft(d, 50), x.mag)

\* C8 amended: gray_scale sets the three channels of a pixel to the same
\* value, and applied to a buffer gray_scale returned it gives a buffer of
\* that size whose channels are within a relative error of 2^-50 of the
\* first result (the float sum of the three weights times L is rounded, so
\* the two need not be equal).
C8_NearlyIdempotent ==
    /\ \A k \in 1 .. Len(calls) : calls[k].fn = "gray_scale" =>
         SameSize(heap[calls[k].ret], heap[calls[k].args[1]]) /\ IsGray(heap[calls[k].ret])
    /\ \A k, j \in 1 .. Len(calls) : GrayOfGray(k, j) =>
         /\ DOMAIN heap[calls[j].ret].px = DOMAIN heap[calls[k].ret].px
         /\ \A c \in DOMAIN heap[calls[k].ret].px :
              Close(heap[calls[k].ret].px[c].red, heap[calls[j].ret].px[c].red)

\* gray_scale has run on a colour buffer and again on its result, and the
\* second result differs from the first
C8_Witness ==
    \E k, j \in 1 .. Len(calls) :
      /\ GrayOfGray(k, j)
      /\ ~IsGray(heap[calls[k].args[1]])
      /\ heap[calls[j].ret] # heap[calls[k].ret]

\* the output of a gradient filter, computed from its input as it is now
FilterOf(kernel, in) ==
    [c \in DOMAIN in.px |->
        IF c \in Interior(in) THEN Gray(Convolve(kernel, in, c[1], c[2]).add)
        ELSE in.px[c]]

FromInput ==
    \A k \in 1 .. Len(calls) :
      /\ calls[k].fn = "horizontal_edge_detect" =>
           heap[calls[k].ret].px = FilterOf(gx, heap[calls[k].args[1]])
      /\ calls[k].fn = "vertical_edge_detect" =>
           heap[calls[k].ret].px = FilterOf(gy, heap[calls[k].args[1]])
      /\ \A j \in 1 .. Len(calls) :
           (calls[j].fn = calls[k].fn /\ calls[j].args = calls[k].args
              /\ calls[j].err = "" /\ calls[k].err = "")
           => heap[calls[j].ret] = heap[calls[k].ret]

InputsKept == \A r \in DOMAIN heap : r \in DOMAIN heap' /\ heap'[r] = heap[r]

\* C10: no stage writes a buffer that exists when it is called (each writes
\* only the buffer it allocates), so every filter response is computed from
\* the unmodified input, whatever was already written to the output, and the
\* filters give the same outputs in either order and on every rerun.
C10_NoInputWritten == [][InputsKept]_vars /\ []FromInput

\* both gradient filters have run on the same buffer, each changing it
C10_Witness ==
    /\ Len(calls) = 2
    /\ calls[1].fn = "vertical_edge_detect" /\ calls[2].fn = "horizontal_edge_detect"
    /\ calls[1].args = <<1>> /\ calls[2].args = <<1>>
    /\ Cardinality(Interior(heap[1])) >= 2
    /\ heap[calls[1].ret] # heap[1] /\ heap[calls[2].ret] # heap[1]
    /\ heap[calls[1].ret] # heap[calls[2].ret]

====
